---- MODULE Spec2Model ----
(***************************************************************************)
(* Model of package iq (src/iq/iq.go): the Nexus IQ client that resolves   *)
(* an application id, submits an sbom and polls the status URL from a      *)
(* goroutine that reports to the caller through an unbuffered channel.     *)
(*                                                                         *)
(* Strings that the code takes apart (URLs) are sequences of one-character *)
(* strings; other strings are TLA+ strings.  A Go error is the sequence of *)
(* its messages, outermost wrapper first; the nil error is << >>.          *)
(***************************************************************************)
EXTENDS Integers, Sequences, FiniteSets, TLC

\* ------------------------------------------------------------------ bounds
\* Audits started in one process run (over all client instances).
MaxAudits == 2
\* Largest Options.MaxRetries a client is constructed with.
MaxRetriesBound == 1

\* Longest report URL the status endpoint answers with when
\* populateAbsoluteURL is examined alone.
MaxURLLen == 4

\* ------------------------------------------------------- program constants
StatusOK == 200
StatusAccepted == 202
StatusPaymentRequired == 402
\* A status the code compares with none of the above: it takes the branch
\* that follows each test of resp.StatusCode.
StatusInternalServerError == 500
\* time.Second, in nanoseconds (time.Duration)
Second == 1000000000

\* The client instances of the process (values of *Server).
Clients == {"c1", "c2"}

Nil == << >>

\* ----------------------------------------------------------------- strings
RECURSIVE TrimRight(_, _)
\* strings.TrimRight(s, cutset) for a one-character cutset
TrimRight(s, ch) ==
  IF Len(s) > 0 /\ s[Len(s)] = ch THEN TrimRight(SubSeq(s, 1, Len(s) - 1), ch) ELSE s

RECURSIVE TrimLeft(_, _)
\* strings.TrimLeft(s, cutset) for a one-character cutset
TrimLeft(s, ch) ==
  IF Len(s) > 0 /\ s[1] = ch THEN TrimLeft(Tail(s), ch) ELSE s

\* strings.TrimSuffix(s, suffix) for a one-character suffix
TrimSuffix(s, ch) ==
  IF Len(s) > 0 /\ s[Len(s)] = ch THEN SubSeq(s, 1, Len(s) - 1) ELSE s

\* strings.HasPrefix
HasPrefix(s, p) ==
  Len(s) >= Len(p) /\ SubSeq(s, 1, Len(p)) = p

\* Position of the first ch in s, 0 when there is none (strings.Index)
Index(s, ch) ==
  IF \E k \in 1..Len(s) : s[k] = ch
  THEN CHOOSE k \in 1..Len(s) : s[k] = ch /\ \A j \in 1..(k - 1) : s[j] /= ch
  ELSE 0

Contains(s, ch) == Index(s, ch) > 0

\* ---------------------------------------------------------------- net/url
\* The characters of the modelled URLs: a letter, and the characters that
\* url.Parse gives a meaning.  "%" is never followed by two hex digits here,
\* so it is always an invalid escape.
Letter == "h"

NoURL == [ok |-> FALSE, Scheme |-> Nil, Opaque |-> Nil, Host |-> Nil,
          Path |-> Nil, RawQuery |-> Nil, ForceQuery |-> FALSE, OmitHost |-> FALSE]

\* url.getScheme: [ok, scheme, rest]
getScheme(raw) ==
  LET stop == IF \E k \in 1..Len(raw) : raw[k] /= Letter
              THEN CHOOSE k \in 1..Len(raw) :
                     raw[k] /= Letter /\ \A j \in 1..(k - 1) : raw[j] = Letter
              ELSE 0
  IN  IF stop = 0 \/ raw[stop] /= ":"
      THEN [ok |-> TRUE, scheme |-> Nil, rest |-> raw]
      ELSE IF stop = 1
           THEN [ok |-> FALSE, scheme |-> Nil, rest |-> Nil]
           ELSE [ok |-> TRUE, scheme |-> SubSeq(raw, 1, stop - 1),
                 rest |-> SubSeq(raw, stop + 1, Len(raw))]

\* url.parseHost / validOptionalPort on the modelled characters: an invalid
\* escape or a port that is not made of digits is an error.
validHost(host) == ~Contains(host, "%") /\ ~Contains(host, "?") /\
  (Contains(host, ":") => Index(host, ":") = Len(host))

\* url.Parse(rawURL): ok = FALSE is the (nil, err) result.
Parse(raw) ==
  LET gs == getScheme(raw) IN
  IF ~gs.ok THEN NoURL ELSE
  LET rest0 == gs.rest
      q == Index(rest0, "?")
      force == q > 0 /\ q = Len(rest0)
      rest1 == IF q = 0 THEN rest0 ELSE SubSeq(rest0, 1, q - 1)
      query == IF q = 0 THEN Nil ELSE SubSeq(rest0, q + 1, Len(rest0))
      slash == HasPrefix(rest1, <<"/">>)
      seg == IF Index(rest1, "/") = 0 THEN rest1
             ELSE SubSeq(rest1, 1, Index(rest1, "/") - 1)
      hasAuth == (gs.scheme /= Nil \/ ~HasPrefix(rest1, <<"/", "/", "/">>))
                   /\ HasPrefix(rest1, <<"/", "/">>)
      after == SubSeq(rest1, 3, Len(rest1))
      cut == Index(after, "/")
      host == IF cut = 0 THEN after ELSE SubSeq(after, 1, cut - 1)
      path == IF hasAuth
              THEN (IF cut = 0 THEN Nil ELSE SubSeq(after, cut, Len(after)))
              ELSE rest1
  IN  IF ~slash /\ gs.scheme /= Nil
      THEN [NoURL EXCEPT !.ok = TRUE, !.Scheme = gs.scheme, !.Opaque = rest1,
                         !.RawQuery = query, !.ForceQuery = force]
      ELSE IF ~slash /\ Contains(seg, ":") THEN NoURL
      ELSE IF hasAuth /\ ~validHost(host) THEN NoURL
      ELSE IF Contains(path, "%") THEN NoURL
      ELSE [ok |-> TRUE, Scheme |-> gs.scheme, Opaque |-> Nil,
            Host |-> IF hasAuth THEN host ELSE Nil, Path |-> path,
            RawQuery |-> query, ForceQuery |-> force,
            OmitHost |-> ~hasAuth /\ gs.scheme /= Nil /\ slash]

\* (*URL).IsAbs
IsAbs(u) == u.Scheme /= Nil

\* (*URL).String
URLString(u) ==
  LET sch == IF u.Scheme /= Nil THEN u.Scheme \o <<":">> ELSE Nil
      auth == IF u.Scheme /= Nil \/ u.Host /= Nil
              THEN (IF u.OmitHost /\ u.Host = Nil THEN Nil
                    ELSE IF u.Host /= Nil \/ u.Path /= Nil
                         THEN <<"/", "/">> \o u.Host ELSE Nil)
              ELSE Nil
      sep == IF u.Path /= Nil /\ u.Path[1] /= "/" /\ u.Host /= Nil
             THEN <<"/">> ELSE Nil
      body == IF u.Opaque /= Nil THEN u.Opaque ELSE auth \o sep \o u.Path
      qry == IF u.ForceQuery \/ u.RawQuery /= Nil
             THEN <<"?">> \o u.RawQuery ELSE Nil
  IN  sch \o body \o qry

\* ------------------------------------------------------------------ errors
\* ServerError{Err: inner, Message: msg}
ServerError(msg, inner) == <<msg>> \o inner

\* ServerErrorMissingLicense{}
ServerErrorMissingLicense == <<"No valid product license installed">>

\* The error client.Do returns when the transport fails.
TransportError == <<"transport">>

\* The error ioutil.ReadAll returns when the body cannot be read.
ReadError == <<"read">>

\* The error json.Unmarshal returns on a malformed body.
UnmarshalError == <<"unmarshal">>

\* The error http.NewRequest returns when the URL does not parse.
RequestError == <<"invalid control character in URL">>

\* A string with an ASCII control character: url.Parse, and so
\* http.NewRequest, rejects every URL that contains it.
CtlString == "status\n"

validRequestURL(part) == part /= CtlString

\* ------------------------------------------------------------------- types
\* StatusURLResult
StatusURLResult(pa, url, abs, isErr, msg) ==
  [PolicyAction |-> pa, ReportHTMLURL |-> url, AbsoluteReportHTMLURL |-> abs,
   IsError |-> isErr, ErrorMessage |-> msg]

\* StatusURLResult{}
EmptyStatus == StatusURLResult("", Nil, Nil, FALSE, "")

\* Report URLs the status endpoint answers with: "/h", "h://h/h" and "%".
RelReportURL == <<"/", "h">>
AbsReportURL == <<"h", ":", "/", "/", "h", "/", "h">>
BadReportURL == <<"%">>
ReportURLs == {RelReportURL, AbsReportURL, BadReportURL}

PolicyActionWarning == "Warning"
PolicyActionFailure == "Failure"
PolicyActions == {PolicyActionWarning, PolicyActionFailure}

\* What json.Unmarshal makes of a well-formed status body: the field
\* AbsoluteReportHTMLURL is tagged json:"-" and stays empty.
Payloads ==
  {StatusURLResult(PolicyActionWarning, RelReportURL, Nil, FALSE, ""),
   StatusURLResult(PolicyActionFailure, AbsReportURL, Nil, TRUE, "boom"),
   StatusURLResult(PolicyActionFailure, BadReportURL, Nil, FALSE, ""),
   StatusURLResult(PolicyActionWarning, BadReportURL, Nil, TRUE, "boom")}

\* Options as New stores them in the Server.
ZeroOptions == [Application |-> "", Server |-> Nil, User |-> "", Token |-> "",
                MaxRetries |-> 0, PollInterval |-> 0]

\* A Server: its options and tries, and allNonOK, which records that every
\* status GET made with it so far was answered with a status other than OK.
NoServer == [live |-> FALSE, Options |-> ZeroOptions, tries |-> 0,
             allNonOK |-> TRUE]

\* Server bases given to New: "", "h://h" and "h://h/".
ServerBase == <<"h", ":", "/", "/", "h">>
ServerInputs == {Nil, ServerBase, ServerBase \o <<"/">>}

OptionInputs ==
  [Application : {"", "app"}, Server : ServerInputs, User : {"", "user"},
   Token : {"", "token"}, MaxRetries : 0..MaxRetriesBound,
   PollInterval : {0, Second}]

\* ------------------------------------------------------------- HTTP answers
\* An answer to the resolver GET: a transport failure, or a status with a
\* body that fails to read, is malformed, or is an applicationResponse.
AppLists == {<< >>, <<"42">>, <<"", "42">>, <<"7", "42">>}
ResolveBodies ==
  {[read |-> FALSE, valid |-> FALSE, apps |-> << >>],
   [read |-> TRUE, valid |-> FALSE, apps |-> << >>]}
  \cup [read : {TRUE}, valid : {TRUE}, apps : AppLists]
ResolveResponses ==
  {[transport |-> TRUE, status |-> 0,
    body |-> [read |-> FALSE, valid |-> FALSE, apps |-> << >>]]} \cup
  [transport : {FALSE},
   status : {StatusOK, StatusPaymentRequired, StatusInternalServerError},
   body : ResolveBodies]

\* An answer to the submit POST.
SubmitBodies ==
  {[read |-> FALSE, valid |-> FALSE, StatusURL |-> ""],
   [read |-> TRUE, valid |-> FALSE, StatusURL |-> ""]}
  \cup [read : {TRUE}, valid : {TRUE}, StatusURL : {"", "status/42", CtlString}]
SubmitResponses ==
  {[transport |-> TRUE, status |-> 0,
    body |-> [read |-> FALSE, valid |-> FALSE, StatusURL |-> ""]]} \cup
  [transport : {FALSE},
   status : {StatusAccepted, StatusOK, StatusInternalServerError},
   body : SubmitBodies]

\* An answer to a status GET.
PollBodies ==
  {[read |-> FALSE, valid |-> FALSE, result |-> EmptyStatus],
   [read |-> TRUE, valid |-> FALSE, result |-> EmptyStatus]}
  \cup [read : {TRUE}, valid : {TRUE}, result : Payloads]
PollResponses ==
  {[transport |-> TRUE, status |-> 0,
    body |-> [read |-> FALSE, valid |-> FALSE, result |-> EmptyStatus]]} \cup
  [transport : {FALSE},
   status : {StatusOK, StatusInternalServerError},
   body : PollBodies]

\* ------------------------------------------------------------ construction
\* A validation that accepts a field left at its zero value.
validateNothing(options, optionName) == Nil

\* validateRequiredOption: the error for a field left at its zero value.
validateRequiredOption(options, optionName) ==
  IF options[optionName] = ZeroOptions[optionName]
  THEN <<"missing options." \o optionName>>
  ELSE Nil

\* New(logger, options): [server, err]; server is NoServer when err is set.
New(logger, options) ==
  LET eApp == validateRequiredOption(options, "Application")
      eSrv == validateRequiredOption(options, "Server")
      eUsr == validateRequiredOption(options, "User")
      eTok == validateRequiredOption(options, "Token")
      stored == [options EXCEPT
                   !.PollInterval = IF @ = 0 THEN 1 * Second ELSE @,
                   !.Server = TrimSuffix(@, "/")]
  IN  IF ~logger THEN [server |-> NoServer, err |-> <<"missing logger">>]
      ELSE IF eApp /= Nil THEN [server |-> NoServer, err |-> eApp]
      ELSE IF eSrv /= Nil THEN [server |-> NoServer, err |-> eSrv]
      ELSE IF eUsr /= Nil THEN [server |-> NoServer, err |-> eUsr]
      ELSE IF eTok /= Nil THEN [server |-> NoServer, err |-> eTok]
      ELSE [server |-> [live |-> TRUE, Options |-> stored, tries |-> 0,
                        allNonOK |-> TRUE],
            err |-> Nil]

\* ------------------------------------------------------------- the resolver
\* The license test made against 403 Forbidden instead of 402.
licenseRestrictedForbidden(resp) == resp.status = 403

\* resp.StatusCode == http.StatusPaymentRequired
licenseRestricted(resp) == resp.status = StatusPaymentRequired

\* The identifier of the last application instead of the first.
pickLastApplication(apps) == apps[Len(apps)]

\* The identifier taken from a non-empty application list.
pickApplication(apps) == apps[1]

\* getInternalApplicationID(applicationID) with the server's answer resp:
\* [id, err, sent], sent telling whether the GET went out.
getInternalApplicationID(i, applicationID, resp) ==
  IF ~validRequestURL(applicationID)
  THEN [id |-> "", sent |-> FALSE,
        err |-> ServerError("Request to get internal application id failed",
                            RequestError)]
  ELSE IF resp.transport
  THEN [id |-> "", sent |-> TRUE,
        err |-> ServerError("There was an error communicating with Nexus IQ Server to get your internal application ID",
                            TransportError)]
  ELSE IF licenseRestricted(resp)
  THEN [id |-> "", sent |-> TRUE, err |-> ServerErrorMissingLicense]
  ELSE IF resp.status = StatusOK
  THEN IF ~resp.body.read
       THEN [id |-> "", sent |-> TRUE,
             err |-> ServerError("There was an error retrieving the bytes of the response for getting your internal application ID from Nexus IQ Server",
                                 ReadError)]
       ELSE IF ~resp.body.valid
       THEN [id |-> "", sent |-> TRUE,
             err |-> ServerError("failed to unmarshal response", UnmarshalError)]
       ELSE IF Len(resp.body.apps) > 0
       THEN [id |-> pickApplication(resp.body.apps), sent |-> TRUE, err |-> Nil]
       ELSE [id |-> "", sent |-> TRUE,
             err |-> ServerError("Unable to retrieve an internal ID",
                                 <<"Unable to retrieve an internal ID for the specified public application ID">>)]
  ELSE [id |-> "", sent |-> TRUE,
        err |-> ServerError("Unable to communicate with Nexus IQ Server",
                            <<"unable to communicate with Nexus IQ Server">>)]

\* ------------------------------------------------------- the submit client
\* submitToThirdPartyAPI(sbom, internalID) with the server's answer resp:
\* [statusURL, err, sent].
submitToThirdPartyAPI(i, internalID, resp) ==
  IF ~validRequestURL(internalID)
  THEN [statusURL |-> "", sent |-> FALSE,
        err |-> ServerError("Could not POST to Nexus iQ Third Party API",
                            RequestError)]
  ELSE IF resp.transport
  THEN [statusURL |-> "", sent |-> TRUE,
        err |-> ServerError("There was an issue communicating with the Nexus IQ Third Party API",
                            TransportError)]
  ELSE IF resp.status = StatusAccepted
  THEN IF ~resp.body.read
       THEN [statusURL |-> "", sent |-> TRUE,
             err |-> ServerError("There was an issue submitting your sbom to the Nexus IQ Third Party API",
                                 ReadError)]
       ELSE IF ~resp.body.valid
       THEN [statusURL |-> "", sent |-> TRUE,
             err |-> ServerError("Could not unmarshal response from IQ server",
                                 UnmarshalError)]
       ELSE [statusURL |-> resp.body.StatusURL, sent |-> TRUE, err |-> Nil]
  ELSE [statusURL |-> "", sent |-> TRUE,
        err |-> ServerError("There was an issue submitting your sbom to the Nexus IQ Third Party API",
                            <<"status_code">>)]

\* audit without its test of the error of submitToThirdPartyAPI.
submissionErrorIgnored(sub) ==
  IF sub.statusURL = ""
  THEN [started |-> FALSE, statusURL |-> "",
        err |-> ServerError("There was an issue obtaining a StatusURL",
                            <<"There was an issue submitting your sbom to the Nexus IQ Third Party API">>)]
  ELSE [started |-> TRUE, statusURL |-> sub.statusURL, err |-> Nil]

\* audit without its test of an empty statusURL.
submissionUnchecked(sub) ==
  IF sub.err /= Nil
  THEN [started |-> FALSE, statusURL |-> "",
        err |-> ServerError("There was an issue submitting to the Third Party API",
                            sub.err)]
  ELSE [started |-> TRUE, statusURL |-> sub.statusURL, err |-> Nil]

\* audit: the outcome of the submission, [started, statusURL, err]; the poll
\* goroutine is started only when started is TRUE.
submission(sub) ==
  IF sub.err /= Nil
  THEN [started |-> FALSE, statusURL |-> "",
        err |-> ServerError("There was an issue submitting to the Third Party API",
                            sub.err)]
  ELSE IF sub.statusURL = ""
  THEN [started |-> FALSE, statusURL |-> "",
        err |-> ServerError("There was an issue obtaining a StatusURL",
                            <<"There was an issue submitting your sbom to the Nexus IQ Third Party API">>)]
  ELSE [started |-> TRUE, statusURL |-> sub.statusURL, err |-> Nil]

\* ------------------------------------------------------------ the poll loop
\* The retry test off by one: i.tries >= i.Options.MaxRetries
retriesExceededEarly(i) == i.tries >= i.Options.MaxRetries

\* i.tries > i.Options.MaxRetries
retriesExceeded(i) == i.tries > i.Options.MaxRetries

\* pollIQServer from its entry to its first channel send, write of the shared
\* status, increment or return.  at names that place:
\*   "sendPoll"    a send inside pollIQServer (retries exceeded, transport)
\*   "sendErrPoll" pollIQServer returned errPoll without sending
\*   "assign"      OK with a parsed body, about to write statusURLResp
\*   "inc"         a status other than OK, about to increment tries
pollIQServer(i, statusURL, resp) ==
  LET none == [sent |-> FALSE, at |-> "", sendErr |-> Nil,
               errPoll |-> Nil, response |-> EmptyStatus]
  IN
  IF retriesExceeded(i)
  THEN [none EXCEPT !.at = "sendPoll",
                    !.sendErr = <<"exceeded max retries">>,
                    !.errPoll = ServerError("exceeded max retries",
                                            <<"exceeded max retries">>)]
  ELSE IF ~validRequestURL(statusURL)
  THEN [none EXCEPT !.at = "sendErrPoll",
                    !.errPoll = ServerError("Could not poll IQ server",
                                            RequestError)]
  ELSE IF resp.transport
  THEN [none EXCEPT !.sent = TRUE, !.at = "sendPoll",
                    !.sendErr = TransportError,
                    !.errPoll = ServerError("There was an error polling Nexus IQ Server",
                                            TransportError)]
  ELSE IF resp.status = StatusOK
  THEN IF ~resp.body.read
       THEN [none EXCEPT !.sent = TRUE, !.at = "sendErrPoll",
                         !.errPoll = ServerError("There was an error with processing the response from polling Nexus IQ Server",
                                                 ReadError)]
       ELSE IF ~resp.body.valid
       THEN [none EXCEPT !.sent = TRUE, !.at = "sendErrPoll",
                         !.errPoll = ServerError("Could not unmarshal response from IQ server",
                                                 UnmarshalError)]
       ELSE [none EXCEPT !.sent = TRUE, !.at = "assign",
                         !.response = resp.body.result]
  ELSE [none EXCEPT !.sent = TRUE, !.at = "inc"]

\* Where the goroutine goes after statusURLResp = response.
afterAssign(response) == IF response.IsError THEN "sendIsErr" ELSE "populate"

\* Where the goroutine goes once the caller has taken the value it sends.
afterSend(at) ==
  CASE at = "sendIsErr" -> "populate"
    [] at = "sendOK" -> "inc"
    [] at = "sendPoll" -> "sendErrPoll"
    [] at = "sendErrPoll" -> "exited"

SendPlaces == {"sendIsErr", "sendOK", "sendPoll", "sendErrPoll"}

\* populateAbsoluteURL(iqServerBaseURL) on the shared status s: [panic, status].
\* url.Parse returns a nil *URL with its error, and IsAbs on it dereferences
\* nil: the goroutine panics.
populateAbsoluteURL(s, iqServerBaseURL) ==
  LET parsedReportURL == Parse(s.ReportHTMLURL)
  IN  IF ~parsedReportURL.ok THEN [panic |-> TRUE, status |-> s]
      ELSE IF IsAbs(parsedReportURL)
      THEN [panic |-> FALSE,
            status |-> [s EXCEPT !.AbsoluteReportHTMLURL = URLString(parsedReportURL)]]
      ELSE [panic |-> FALSE,
            status |-> [s EXCEPT !.AbsoluteReportHTMLURL =
                          TrimRight(iqServerBaseURL, "/") \o <<"/">>
                            \o TrimLeft(parsedReportURL.Path, "/")]]

\* ------------------------------------------------------------------- state
VARIABLES
  servers,        \* the client instances: NoServer, or the Server New built
  audits,         \* the audit invocations so far, in the order they began
  statusURLResp,  \* the package-level status variable
  panicked,       \* the process died of an unrecovered panic
  construction    \* a call of New under way or returned: its arguments and,
                  \* once it returned, its error; NoConstruction otherwise

vars == <<servers, audits, statusURLResp, panicked, construction>>

\* One invocation of AuditWithSbom / AuditPackages.
\*   cpc      the caller: "ossindex", "submit", "recv", "read", "done" (it
\*            returned ret), "gone" (its client went on to another audit)
\*   gpc      its poll goroutine: "none", "loop", "assign", "populate", "inc",
\*            "incw",
\*            a place of SendPlaces, "exited"
\*   response, errPoll, sendErr   locals of the goroutine
\*   tmp      the value of i.tries read by an increment under way
\*   apps     the application list the resolver answered with
\*   r        the resultError.err the caller received
\*   ret      what the invocation returned
\*   log      the HTTP requests it issued, oldest first
NewAudit(c) ==
  [client |-> c, cpc |-> "submit", gpc |-> "none", internalID |-> "",
   apps |-> << >>, tmp |-> 0,
   statusURL |-> "", response |-> EmptyStatus, errPoll |-> Nil,
   sendErr |-> Nil, r |-> Nil, ret |-> [status |-> EmptyStatus, err |-> Nil],
   log |-> << >>]

\* What the server answered, as the log keeps it: "transport" (no answer),
\* "status" (a status other than the one the call takes for success), or
\* what the body of a successful answer is.
BodyKind(body, blank) ==
  IF ~body.read THEN "unreadable"
  ELSE IF ~body.valid THEN "malformed"
  ELSE IF blank THEN "blank" ELSE "json"

ResolveAnswer(resp) ==
  IF resp.transport THEN "transport"
  ELSE IF resp.status /= StatusOK THEN "status"
  ELSE BodyKind(resp.body, resp.body.apps = << >>)

SubmitAnswer(resp) ==
  IF resp.transport THEN "transport"
  ELSE IF resp.status /= StatusAccepted THEN "status"
  ELSE BodyKind(resp.body, resp.body.StatusURL = "")

PollAnswer(resp) ==
  IF resp.transport THEN "transport"
  ELSE IF resp.status /= StatusOK THEN "status"
  ELSE BodyKind(resp.body, FALSE)

\* A request as the log keeps it: its kind, i.tries when it went out, the
\* status and the kind of the answer, the statusUrl of a submit answer and
\* the StatusURLResult of a status answer.
Request(req, tries, status, out, arg, payload) ==
  [req |-> req, tries |-> tries, status |-> status, out |-> out,
   arg |-> arg, payload |-> payload]

\* The goroutine of audit a can still take a step by itself.
Running(a) == a.gpc \in {"loop", "assign", "populate", "inc", "incw"}

\* An audit whose caller has gone on to its next call: what it returned and
\* the log of its requests are dropped, and so are the locals of a goroutine
\* that will never run again (one that was never started, has exited, or
\* waits in a send that no receive will meet).
Forget(a) ==
  IF Running(a)
  THEN [a EXCEPT !.cpc = "gone", !.r = Nil, !.log = << >>,
                 !.ret = [status |-> EmptyStatus, err |-> Nil]]
  ELSE [a EXCEPT !.cpc = "gone", !.r = Nil, !.log = << >>,
                 !.ret = [status |-> EmptyStatus, err |-> Nil],
                 !.statusURL = "", !.errPoll = Nil, !.sendErr = Nil]

\* A copy of s in which each field may already hold the value of t.
Mixes(s, t) ==
  {StatusURLResult(a.PolicyAction, b.ReportHTMLURL, c.AbsoluteReportHTMLURL,
                   d.IsError, e.ErrorMessage) :
     a \in {s, t}, b \in {s, t}, c \in {s, t}, d \in {s, t}, e \in {s, t}}

\* The values a read of statusURLResp can yield.  The variable is read and
\* written without synchronisation: a read that runs while a goroutine is
\* copying its response into it (line 542) can see any part of the copy.
ReadStatusURLResp ==
  {statusURLResp} \cup
  UNION {Mixes(statusURLResp, audits[k].response) :
           k \in {j \in DOMAIN audits : audits[j].gpc = "assign"}}

\* No call of New is being followed.
NoConstruction == [pc |-> "none", logger |-> FALSE, options |-> ZeroOptions,
                   err |-> Nil]

Init ==
  /\ servers = [c \in Clients |-> NoServer]
  /\ audits = << >>
  /\ statusURLResp = EmptyStatus
  /\ panicked = FALSE
  /\ construction = NoConstruction

\* ----------------------------------------------------------------- actions
\* New succeeds and the process keeps the Server it returns.  A call of New
\* that fails returns (nil, err) and leaves no state behind.
NewServer(c, logger, options) ==
  /\ ~panicked
  /\ ~servers[c].live
  /\ New(logger, options).err = Nil
  /\ servers' = [servers EXCEPT ![c] = New(logger, options).server]
  /\ UNCHANGED <<audits, statusURLResp, panicked>>
  /\ UNCHANGED construction

\* The caller of client c is sequential: one audit at a time.
Idle(c) ==
  \A k \in DOMAIN audits :
    audits[k].client = c => audits[k].cpc \in {"done", "gone"}

\* The audits so far, as they are once the caller of c starts a new one.
Earlier(c) ==
  [k \in DOMAIN audits |->
     IF audits[k].client = c THEN Forget(audits[k]) ELSE audits[k]]

\* AuditWithSbom (packages = FALSE) and AuditPackages (packages = TRUE), from
\* entry to the return on a failed resolution or to the next call.
BeginAudit(c, packages, resp) ==
  /\ ~panicked
  /\ servers[c].live
  /\ Len(audits) < MaxAudits
  /\ Idle(c)
  /\ LET res == getInternalApplicationID(servers[c], servers[c].Options.Application, resp)
         a == [NewAudit(c) EXCEPT
                 !.log = IF res.sent
                         THEN <<Request("resolve", 0, resp.status,
                                        ResolveAnswer(resp), "", EmptyStatus)>>
                         ELSE << >>]
     IN  IF res.id = "" /\ res.err /= Nil
         THEN \E s \in ReadStatusURLResp :
                audits' = Append(Earlier(c),
                            [a EXCEPT !.cpc = "done",
                                      !.ret = [status |-> s, err |-> res.err]])
         ELSE audits' = Append(Earlier(c),
                          [a EXCEPT !.cpc = IF packages THEN "ossindex" ELSE "submit",
                                    !.internalID = res.id,
                                    !.apps = resp.body.apps])
  /\ UNCHANGED <<servers, statusURLResp, panicked>>
  /\ UNCHANGED construction

\* AuditPackages: ossi.AuditPackages(purls) and the sbom built from it.
OssIndex(k, failed) ==
  /\ ~panicked
  /\ k \in DOMAIN audits
  /\ audits[k].cpc = "ossindex"
  /\ IF failed
     THEN \E s \in ReadStatusURLResp :
            audits' = [audits EXCEPT
                         ![k].cpc = "done",
                         ![k].internalID = "", ![k].apps = << >>,
                         ![k].ret = [status |-> s,
                                     err |-> ServerError("There was an issue auditing packages using OSS Index",
                                                         <<"ossindex">>)]]
     ELSE audits' = [audits EXCEPT ![k].cpc = "submit"]
  /\ UNCHANGED <<servers, statusURLResp, panicked>>
  /\ UNCHANGED construction

\* audit: the submission, then either the error return or the reset of the
\* shared status, the channel and the start of the poll goroutine.
Submit(k, resp) ==
  /\ ~panicked
  /\ k \in DOMAIN audits
  /\ audits[k].cpc = "submit"
  /\ LET i == servers[audits[k].client]
         sub == submitToThirdPartyAPI(i, audits[k].internalID, resp)
         res == submission(sub)
         log == IF sub.sent
                THEN Append(audits[k].log,
                            Request("submit", 0, resp.status, SubmitAnswer(resp),
                                    IF SubmitAnswer(resp) = "json"
                                    THEN resp.body.StatusURL ELSE "",
                                    EmptyStatus))
                ELSE audits[k].log
     IN  IF res.started
         THEN /\ audits' = [audits EXCEPT ![k].cpc = "recv", ![k].gpc = "loop",
                                          ![k].statusURL = res.statusURL,
                                          ![k].internalID = "",
                                          ![k].apps = << >>,
                                          ![k].log = log]
              /\ statusURLResp' = EmptyStatus
         ELSE /\ \E s \in ReadStatusURLResp :
                   audits' = [audits EXCEPT
                                ![k].cpc = "done", ![k].log = log,
                                ![k].internalID = "", ![k].apps = << >>,
                                ![k].ret = [status |-> s, err |-> res.err]]
              /\ UNCHANGED statusURLResp
  /\ UNCHANGED <<servers, panicked>>
  /\ UNCHANGED construction

\* The goroutine's loop: the select takes its default branch (nothing is
\* ever sent to the goroutine and the channel is open), pollIQServer runs up
\* to its first send, write or increment.
Poll(k, resp) ==
  /\ ~panicked
  /\ k \in DOMAIN audits
  /\ audits[k].gpc = "loop"
  /\ LET i == servers[audits[k].client]
         p == pollIQServer(i, audits[k].statusURL, resp)
     IN  /\ servers' = [servers EXCEPT
                          ![audits[k].client].allNonOK =
                             @ /\ (p.sent => PollAnswer(resp) = "status")]
         /\ audits' = [audits EXCEPT
                      ![k].gpc = p.at,
                      ![k].sendErr = IF p.at = "sendErrPoll" THEN p.errPoll ELSE p.sendErr,
                      ![k].errPoll = p.errPoll,
                      ![k].response = p.response,
                      ![k].log = IF p.sent
                                 THEN Append(@, Request("get", i.tries, resp.status,
                                                        PollAnswer(resp), "",
                                                        IF PollAnswer(resp) = "json"
                                                        THEN resp.body.result
                                                        ELSE EmptyStatus))
                                 ELSE @]
  /\ UNCHANGED <<statusURLResp, panicked>>
  /\ UNCHANGED construction

\* statusURLResp = response
Assign(k) ==
  /\ ~panicked
  /\ k \in DOMAIN audits
  /\ audits[k].gpc = "assign"
  /\ statusURLResp' = audits[k].response
  /\ audits' = [audits EXCEPT ![k].gpc = afterAssign(audits[k].response),
                              ![k].response = EmptyStatus]
  /\ UNCHANGED <<servers, panicked>>
  /\ UNCHANGED construction

\* statusURLResp.populateAbsoluteURL(i.Options.Server)
Populate(k) ==
  /\ ~panicked
  /\ k \in DOMAIN audits
  /\ audits[k].gpc = "populate"
  /\ LET p == populateAbsoluteURL(statusURLResp,
                                  servers[audits[k].client].Options.Server)
     IN  IF p.panic
         THEN /\ panicked' = TRUE
              /\ UNCHANGED <<audits, statusURLResp>>
         ELSE /\ statusURLResp' = p.status
              /\ audits' = [audits EXCEPT ![k].gpc = "sendOK", ![k].sendErr = Nil]
              /\ UNCHANGED panicked
  /\ UNCHANGED servers
  /\ UNCHANGED construction

\* A send of the goroutine meets the caller's receive (r := <-finishedChan);
\* after its last send the goroutine returns and closes the channel.
Deliver(k) ==
  /\ ~panicked
  /\ k \in DOMAIN audits
  /\ audits[k].gpc \in SendPlaces
  /\ audits[k].cpc = "recv"
  /\ audits' = [audits EXCEPT
                  ![k].cpc = "read",
                  ![k].r = audits[k].sendErr,
                  ![k].gpc = afterSend(audits[k].gpc),
                  ![k].sendErr = IF audits[k].gpc = "sendPoll"
                                 THEN audits[k].errPoll ELSE Nil,
                  ![k].errPoll = IF audits[k].gpc = "sendPoll" THEN @ ELSE Nil]
  /\ UNCHANGED <<servers, statusURLResp, panicked>>
  /\ UNCHANGED construction

\* Another goroutine that polls with the same Server can still run.
Shared(k) ==
  \E j \in DOMAIN audits :
    j /= k /\ audits[j].client = audits[k].client /\ Running(audits[j])

\* i.tries++, return err (nil), then the sleep of the poll interval.  The
\* increment is a read and a write of i.tries: while another goroutine of
\* the same Server can run, the two are separate steps.
Inc(k) ==
  /\ ~panicked
  /\ k \in DOMAIN audits
  /\ audits[k].gpc = "inc"
  /\ LET c == audits[k].client
     IN  IF Shared(k)
         THEN /\ audits' = [audits EXCEPT ![k].gpc = "incw",
                                          ![k].tmp = servers[c].tries]
              /\ UNCHANGED servers
         ELSE /\ servers' = [servers EXCEPT ![c].tries = @ + 1]
              /\ audits' = [audits EXCEPT ![k].gpc = "loop"]
  /\ UNCHANGED <<statusURLResp, panicked>>
  /\ UNCHANGED construction

\* The write of i.tries++ that follows a separate read.
IncWrite(k) ==
  /\ ~panicked
  /\ k \in DOMAIN audits
  /\ audits[k].gpc = "incw"
  /\ servers' = [servers EXCEPT ![audits[k].client].tries = audits[k].tmp + 1]
  /\ audits' = [audits EXCEPT ![k].gpc = "loop", ![k].tmp = 0]
  /\ UNCHANGED <<statusURLResp, panicked>>
  /\ UNCHANGED construction

\* return statusURLResp, r.err
Return(k) ==
  /\ ~panicked
  /\ k \in DOMAIN audits
  /\ audits[k].cpc = "read"
  /\ \E s \in ReadStatusURLResp :
       audits' = [audits EXCEPT ![k].cpc = "done",
                                ![k].ret = [status |-> s, err |-> audits[k].r]]
  /\ UNCHANGED <<servers, statusURLResp, panicked>>
  /\ UNCHANGED construction

\* The steps of a process that uses the client instances of CS.
NextOver(CS) ==
  \/ \E c \in CS, logger \in BOOLEAN, options \in OptionInputs :
       NewServer(c, logger, options)
  \/ \E c \in CS, packages \in BOOLEAN, resp \in ResolveResponses :
       BeginAudit(c, packages, resp)
  \/ \E k \in 1..MaxAudits, failed \in BOOLEAN : OssIndex(k, failed)
  \/ \E k \in 1..MaxAudits, resp \in SubmitResponses : Submit(k, resp)
  \/ \E k \in 1..MaxAudits, resp \in PollResponses : Poll(k, resp)
  \/ \E k \in 1..MaxAudits : Assign(k)
  \/ \E k \in 1..MaxAudits : Populate(k)
  \/ \E k \in 1..MaxAudits : Deliver(k)
  \/ \E k \in 1..MaxAudits : Inc(k)
  \/ \E k \in 1..MaxAudits : IncWrite(k)
  \/ \E k \in 1..MaxAudits : Return(k)

\* A process with one client instance.
Next == NextOver({"c1"})

Spec == Init /\ [][Next]_vars

\* -------------------------------------------------------------- properties
\* The status GETs of an audit, oldest first.
Gets(a) == SelectSeq(a.log, LAMBDA e : e.req = "get")

\* The requests of an audit of one kind.
Calls(a, req) == SelectSeq(a.log, LAMBDA e : e.req = req)

\* The caller of the audit has received the completion signal.
Signalled(a) == a.cpc \in {"read", "done", "gone"}

\* The first parsed payload a status GET of the audit was answered with.
FirstPayload(a) ==
  LET ok == SelectSeq(Gets(a), LAMBDA e : e.out = "json") IN ok[1].payload

Polled(a, out) == \E j \in 1..Len(Gets(a)) : Gets(a)[j].out = out

\* C1: when every status GET made with a Server was answered with a status
\* other than OK and the first GET of an audit went out at tries = 0, the
\* GETs of the audit go out at tries 0, 1, ..., there are never more than
\* MaxRetries + 1 of them, the caller gets the completion signal only after
\* exactly MaxRetries + 1, and the audit returns the max-retries error.
C1_ExhaustionAfterNPlusOnePolls ==
  \A k \in DOMAIN audits :
    LET a == audits[k]
        i == servers[a.client]
        g == Gets(a)
    IN  (i.allNonOK /\ g /= << >> /\ g[1].tries = 0) =>
          /\ Len(g) <= i.Options.MaxRetries + 1
          /\ \A j \in 1..Len(g) : g[j].tries = j - 1
          /\ Signalled(a) => Len(g) = i.Options.MaxRetries + 1
          /\ a.cpc = "done" => a.ret.err = <<"exceeded max retries">>

C1_Witness ==
  \E k \in DOMAIN audits :
    /\ audits[k].cpc = "done"
    /\ servers[audits[k].client].allNonOK
    /\ servers[audits[k].client].Options.MaxRetries = MaxRetriesBound
    /\ Len(Gets(audits[k])) = MaxRetriesBound + 1
    /\ Gets(audits[k])[1].tries = 0
    /\ audits[k].ret.err = <<"exceeded max retries">>

\* C2: once a status GET of an audit was answered OK with a parseable body,
\* no further status GET is issued for that audit: in the log of an audit a
\* GET answered with a parsed payload is the last GET.
C2_NoPollAfterOK ==
  \A k \in DOMAIN audits :
    \A j \in 1..Len(Gets(audits[k])) :
      Gets(audits[k])[j].out = "json" => j = Len(Gets(audits[k]))

\* C3: the poll goroutine sends once on the completion channel and never
\* attempts a second send: it is never at a send once the caller has
\* received.
C3_SingleSend ==
  \A k \in DOMAIN audits :
    Signalled(audits[k]) => audits[k].gpc \notin SendPlaces

\* C4: after the caller of an audit has received the completion signal, no
\* step of the poll goroutine of that audit writes the shared status.
C4_NoWriteAfterSignal ==
  [][\A k \in DOMAIN audits :
       (Signalled(audits[k]) /\ audits'[k].gpc /= audits[k].gpc)
         => statusURLResp' = statusURLResp]_vars

\* C5: an audit with a status GET answered OK with a parseable payload P
\* returns a nil error and P with the absolute report URL derived from P
\* and the server base.
C5_ReturnsPayload ==
  \A k \in DOMAIN audits :
    LET a == audits[k] IN
    (a.cpc = "done" /\ Polled(a, "json")) =>
      /\ a.ret.err = Nil
      /\ a.ret.status =
           populateAbsoluteURL(FirstPayload(a),
                               servers[a.client].Options.Server).status

\* C6: a status GET that fails with a transport error is the last GET of
\* the audit, and the audit returns that transport error.
C6_TransportErrorReturned ==
  \A k \in DOMAIN audits :
    LET a == audits[k] IN
    /\ \A j \in 1..Len(Gets(a)) :
         Gets(a)[j].out = "transport" => j = Len(Gets(a))
    /\ (a.cpc = "done" /\ Polled(a, "transport")) => a.ret.err = TransportError

\* C7: a malformed JSON body ends the audit with an error at each endpoint:
\* after a malformed resolve answer nothing else is requested, after a
\* malformed submit answer no status GET is issued, and a malformed status
\* answer is the last GET.
C7_MalformedBodyIsFatal ==
  \A k \in DOMAIN audits :
    LET a == audits[k] IN
    /\ (Len(a.log) > 0 /\ a.log[1].req = "resolve" /\ a.log[1].out = "malformed")
         => Len(a.log) = 1 /\ a.cpc = "done" /\ a.ret.err /= Nil
    /\ (\E j \in 1..Len(a.log) : a.log[j].req = "submit" /\ a.log[j].out = "malformed")
         => Gets(a) = << >> /\ a.gpc = "none" /\ a.cpc = "done" /\ a.ret.err /= Nil
    /\ \A j \in 1..Len(Gets(a)) :
         Gets(a)[j].out = "malformed" => j = Len(Gets(a))
    /\ (a.cpc = "done" /\ Polled(a, "malformed")) => a.ret.err /= Nil

\* C8: a resolver answer with status 402 makes the audit return the missing
\* license error, whatever its body, and nothing else is requested.
C8_MissingLicense ==
  \A k \in DOMAIN audits :
    LET a == audits[k] IN
    (Len(a.log) > 0 /\ a.log[1].req = "resolve"
       /\ a.log[1].status = StatusPaymentRequired) =>
      /\ a.cpc = "done"
      /\ a.ret.err = ServerErrorMissingLicense
      /\ Len(a.log) = 1
      /\ a.gpc = "none"

C8_Witness ==
  \E k \in DOMAIN audits :
    /\ Len(audits[k].log) = 1
    /\ audits[k].log[1].status = StatusPaymentRequired
    /\ audits[k].ret.err = ServerErrorMissingLicense

\* C9: a successful resolver answer with no application ends the audit with
\* the error that no internal id was found and nothing else is requested;
\* with applications, the id of the first one is the id the submit is made
\* with.
C9_FirstApplication ==
  \A k \in DOMAIN audits :
    LET a == audits[k] IN
    /\ (Len(a.log) > 0 /\ a.log[1].req = "resolve" /\ a.log[1].out = "blank") =>
         /\ a.cpc = "done"
         /\ a.ret.err = ServerError("Unable to retrieve an internal ID",
                          <<"Unable to retrieve an internal ID for the specified public application ID">>)
         /\ Len(a.log) = 1
         /\ a.gpc = "none"
    /\ (Len(a.log) > 0 /\ a.log[1].req = "resolve" /\ a.log[1].out = "json") =>
         /\ a.cpc \in {"ossindex", "submit"} =>
              a.apps /= << >> /\ a.internalID = Head(a.apps)

C9_Witness ==
  \E k \in DOMAIN audits :
    /\ audits[k].cpc = "submit"
    /\ Len(audits[k].apps) = 2
    /\ audits[k].internalID = "7"

\* C10: an Accepted submit answer with a statusUrl starts the poll goroutine
\* with that statusUrl; an Accepted answer with an empty statusUrl makes the
\* audit return the no-StatusURL error, starts no goroutine and is followed
\* by no status GET.
C10_Handle ==
  \A k \in DOMAIN audits :
    LET a == audits[k]
        s == Calls(a, "submit")
    IN  /\ (s /= << >> /\ s[1].out = "json") =>
             a.gpc /= "none" /\ a.statusURL = s[1].arg /\ s[1].arg /= ""
        /\ (s /= << >> /\ s[1].out = "blank") =>
             /\ a.cpc = "done"
             /\ a.ret.err =
                  ServerError("There was an issue obtaining a StatusURL",
                    <<"There was an issue submitting your sbom to the Nexus IQ Third Party API">>)
             /\ a.gpc = "none"
             /\ Gets(a) = << >>

C10_Witness ==
  \E k \in DOMAIN audits :
    /\ Calls(audits[k], "submit") /= << >>
    /\ Calls(audits[k], "submit")[1].out = "blank"
    /\ audits[k].cpc = "done"
    /\ audits[k].gpc = "none"

\* The place of a request in the order resolve, submit, status GETs.
Rank(req) == CASE req = "resolve" -> 1 [] req = "submit" -> 2 [] req = "get" -> 3

\* The requests of an audit are at most one resolve, then at most one
\* submit, then status GETs.
InOrder(a) ==
  /\ Len(Calls(a, "resolve")) <= 1
  /\ Len(Calls(a, "submit")) <= 1
  /\ \A m, n \in 1..Len(a.log) : m < n => Rank(a.log[m].req) <= Rank(a.log[n].req)

\* The error of an audit whose resolve was answered with a status that is
\* neither OK nor Payment Required.
ResolveStatusError ==
  ServerError("Unable to communicate with Nexus IQ Server",
              <<"unable to communicate with Nexus IQ Server">>)

\* The error of an audit whose submit was answered with a status other than
\* Accepted.
SubmitStatusError ==
  ServerError("There was an issue submitting to the Third Party API",
    ServerError("There was an issue submitting your sbom to the Nexus IQ Third Party API",
                <<"status_code">>))

\* What follows a submit answered with a status other than Accepted.
SubmitRefused(a) ==
  (Calls(a, "submit") /= << >> /\ Calls(a, "submit")[1].out = "status") =>
    /\ a.cpc = "done"
    /\ a.ret.err = SubmitStatusError
    /\ Gets(a) = << >>
    /\ a.gpc = "none"

\* C11 as stated: an audit issues at most one resolve and at most one submit,
\* in the order resolve, submit, status GETs; a resolve answered with any
\* status other than OK, or a submit answered with any status other than
\* Accepted, ends the audit with a ServerError, with no further request and
\* no poll goroutine.
C11_SingleAttemptAnyStatus ==
  \A k \in DOMAIN audits :
    LET a == audits[k] IN
    /\ InOrder(a)
    /\ (Len(a.log) > 0 /\ a.log[1].req = "resolve" /\ a.log[1].out = "status") =>
         /\ a.cpc = "done"
         /\ a.ret.err = ResolveStatusError
         /\ Len(a.log) = 1
         /\ a.gpc = "none"
    /\ SubmitRefused(a)

\* C11, amended: the same, for a resolve answered with a status other than
\* OK and other than 402 Payment Required (which ends the audit with the
\* missing license error instead).
C11_SingleAttempt ==
  \A k \in DOMAIN audits :
    LET a == audits[k] IN
    /\ InOrder(a)
    /\ (Len(a.log) > 0 /\ a.log[1].req = "resolve" /\ a.log[1].out = "status"
          /\ a.log[1].status /= StatusPaymentRequired) =>
         /\ a.cpc = "done"
         /\ a.ret.err = ResolveStatusError
         /\ Len(a.log) = 1
         /\ a.gpc = "none"
    /\ SubmitRefused(a)

C11_Witness ==
  \E k \in DOMAIN audits :
    /\ Len(audits[k].log) = 2
    /\ audits[k].log[1].req = "resolve"
    /\ audits[k].log[2].req = "submit"
    /\ audits[k].log[2].out = "status"
    /\ audits[k].cpc = "done"
    /\ audits[k].ret.err = SubmitStatusError

\* ------------------------------------------------------ construction alone
\* A process that calls New once, with any logger and any options.
InitNew ==
  /\ servers = [c \in Clients |-> NoServer]
  /\ audits = << >>
  /\ statusURLResp = EmptyStatus
  /\ panicked = FALSE
  /\ construction \in [pc : {"call"}, logger : BOOLEAN, options : OptionInputs,
                       err : {Nil}]

\* New(logger, options) returns: the process keeps the Server (none when New
\* failed) and the error.
Construct(c) ==
  /\ construction.pc = "call"
  /\ LET n == New(construction.logger, construction.options)
     IN  /\ servers' = [servers EXCEPT ![c] = n.server]
         /\ construction' = [construction EXCEPT !.pc = "returned", !.err = n.err]
  /\ UNCHANGED <<audits, statusURLResp, panicked>>

NextNew == \E c \in {"c1"} : Construct(c)

SpecNew == InitNew /\ [][NextNew]_vars

\* The options New requires, in the order it tests them.
RequiredOptions == <<"Application", "Server", "User", "Token">>

\* The required options that are empty in o, in the order of the tests.
MissingOptions(o) ==
  SelectSeq(RequiredOptions, LAMBDA f : o[f] = ZeroOptions[f])

\* New succeeded: the client is there and its poll interval is the one given,
\* or one second when none was given.
Constructed(c) ==
  /\ construction.err = Nil
  /\ servers[c].live
  /\ servers[c].Options.PollInterval =
       IF construction.options.PollInterval = 0
       THEN Second ELSE construction.options.PollInterval

\* New failed: there is an error, no client and no request.
NotConstructed(c) ==
  /\ construction.err /= Nil
  /\ servers[c] = NoServer
  /\ audits = << >>

\* C12 as stated: New fails, returning no client and issuing no request,
\* when one of application, server, user and token is empty, and succeeds
\* when all four are present, an unset poll interval becoming one second.
C12_RequiredOptionsOnly ==
  construction.pc = "returned" =>
    IF MissingOptions(construction.options) /= << >>
    THEN NotConstructed("c1")
    ELSE Constructed("c1")

\* C12, amended: New fails with "missing logger" when the logger is nil,
\* else with "missing options.<field>" for the first of application, server,
\* user and token that is empty, in both cases returning no client and
\* issuing no request; with a logger and all four present it succeeds, an
\* unset poll interval becoming one second.
C12_RequiredOptionsAndLogger ==
  construction.pc = "returned" =>
    LET missing == MissingOptions(construction.options) IN
    IF ~construction.logger
    THEN NotConstructed("c1") /\ construction.err = <<"missing logger">>
    ELSE IF missing /= << >>
    THEN NotConstructed("c1")
           /\ construction.err = <<"missing options." \o Head(missing)>>
    ELSE Constructed("c1")

C12_Witness ==
  /\ construction.pc = "returned"
  /\ construction.logger
  /\ construction.options.PollInterval = 0
  /\ construction.err = Nil
  /\ servers["c1"].live
  /\ servers["c1"].Options.PollInterval = Second

\* ------------------------------------------------- populateAbsoluteURL alone
\* The characters of a report URL and the report URLs of up to n characters.
URLChars == {Letter, ":", "/", "?", "%"}
URLsUpTo(n) == UNION {[1..m -> URLChars] : m \in 0..n}

\* Server bases given to New: "h://h", "h://h/" and "h://h//".
BaseInputs == {ServerBase, ServerBase \o <<"/">>, ServerBase \o <<"/", "/">>}

\* An audit of client c whose first status GET was answered OK with payload
\* p, isError false, once pollIQServer has copied p into statusURLResp.
Assigned(c, p) ==
  [NewAudit(c) EXCEPT
     !.cpc = "recv", !.gpc = afterAssign(p), !.statusURL = "status/42",
     !.log = <<Request("resolve", 0, StatusOK, "json", "", EmptyStatus),
               Request("submit", 0, StatusAccepted, "json", "status/42", EmptyStatus),
               Request("get", 0, StatusOK, "json", "", p)>>]

\* A process whose one audit is about to call populateAbsoluteURL, for any
\* report URL and any server base.
InitAbs ==
  \E url \in URLsUpTo(MaxURLLen), base \in BaseInputs :
    LET p == StatusURLResult(PolicyActionWarning, url, Nil, FALSE, "")
        o == [Application |-> "app", Server |-> base, User |-> "user",
              Token |-> "token", MaxRetries |-> 0, PollInterval |-> 0]
    IN  /\ servers = [c \in Clients |->
                        IF c = "c1"
                        THEN [New(TRUE, o).server EXCEPT !.allNonOK = FALSE]
                        ELSE NoServer]
        /\ audits = <<Assigned("c1", p)>>
        /\ statusURLResp = p
        /\ panicked = FALSE
        /\ construction = NoConstruction

NextAbs == \E k \in 1..MaxAudits : Populate(k)

SpecAbs == InitAbs /\ [][NextAbs]_vars

\* s without one leading "/".
TrimPrefix(s, ch) == IF Len(s) > 0 /\ s[1] = ch THEN Tail(s) ELSE s

\* C13: once populateAbsoluteURL has run, the absolute report URL is the
\* report URL itself when that is absolute, and otherwise the server base
\* without its trailing slash, "/", and the whole report URL without its
\* leading slash.
C13_Absolutize ==
  \A k \in DOMAIN audits :
    audits[k].gpc = "sendOK" =>
      LET reportURL == statusURLResp.ReportHTMLURL
          base == servers[audits[k].client].Options.Server
      IN  statusURLResp.AbsoluteReportHTMLURL =
            IF IsAbs(Parse(reportURL))
            THEN reportURL
            ELSE TrimSuffix(base, "/") \o <<"/">> \o TrimPrefix(reportURL, "/")

\* C14: when a status GET of an audit is answered OK with a report URL that
\* url.Parse rejects, the process does not panic, and the audit returns the
\* status with that report URL and no absolute report URL.
C14_NoPanicOnBadURL ==
  \A k \in DOMAIN audits :
    LET a == audits[k] IN
    (Polled(a, "json") /\ ~Parse(FirstPayload(a).ReportHTMLURL).ok) =>
      /\ ~panicked
      /\ a.cpc = "done" =>
           /\ a.ret.status.ReportHTMLURL = FirstPayload(a).ReportHTMLURL
           /\ a.ret.status.AbsoluteReportHTMLURL = Nil

\* C15: an audit that returns an error returns the empty status with it.
C15_ErrorWithEmptyStatus ==
  \A k \in DOMAIN audits :
    (audits[k].cpc = "done" /\ audits[k].ret.err /= Nil) =>
      audits[k].ret.status = EmptyStatus

\* ---------------------------------------------------------------- progress
\* The steps the caller of audit k takes by itself, and the steps of its
\* poll goroutine (the rendezvous on the channel is a step of both).
CallerStep(k) ==
  \/ \E failed \in BOOLEAN : OssIndex(k, failed)
  \/ \E resp \in SubmitResponses : Submit(k, resp)
  \/ Deliver(k)
  \/ Return(k)

TaskStep(k) ==
  \/ \E resp \in PollResponses : Poll(k, resp)
  \/ Assign(k)
  \/ Populate(k)
  \/ Deliver(k)
  \/ Inc(k)
  \/ IncWrite(k)

\* Every HTTP call returns, the sleep of the poll interval ends, and the Go
\* scheduler runs every goroutine that can run: a caller or a poll goroutine
\* that can take a step eventually takes one.  Nothing obliges the process
\* to construct a client or to begin an audit.
FairSpec ==
  /\ Spec
  /\ \A k \in 1..MaxAudits : WF_vars(CallerStep(k)) /\ WF_vars(TaskStep(k))

\* The caller of audit k has its result.
Returned(k) == k \in DOMAIN audits /\ audits[k].cpc \in {"done", "gone"}

\* C16: every audit that begins eventually returns to its caller.
C16_AuditReturns ==
  \A k \in 1..MaxAudits : [](k \in DOMAIN audits => <>Returned(k))

\* Unless the process has panicked, an audit that has not returned can take
\* a step: its caller or its poll goroutine is never stuck.
CanStepUnlessPanic ==
  \A k \in DOMAIN audits :
    (~Returned(k) /\ ~panicked) => ENABLED (CallerStep(k) \/ TaskStep(k))

\* C17: the first status GET of every audit goes out with the attempt
\* counter at 0.
C17_FirstPollAtZero ==
  \A k \in DOMAIN audits :
    (audits[k].cpc /= "gone" /\ Gets(audits[k]) /= << >>) =>
      Gets(audits[k])[1].tries = 0

\* The poll goroutine of audit a will take no further step: it was never
\* started, it has returned, or it waits in a send after the only receive.
Settled(a) ==
  a.cpc = "done" /\ a.gpc \in ({"none", "exited"} \cup SendPlaces)

\* C18: the attempt counter of a client equals the number of status GETs
\* issued with it: once the only audit of the process has returned and its
\* poll goroutine has settled, tries is the number of its status GETs.
C18_CounterCountsGets ==
  (Len(audits) = 1 /\ Settled(audits[1])) =>
    servers[audits[1].client].tries = Len(Gets(audits[1]))

\* C19: once the caller of an audit has received the completion signal, the
\* poll goroutine of that audit eventually returns (and closes the channel).
C19_TaskExits ==
  \A k \in 1..MaxAudits :
    []((k \in DOMAIN audits /\ Signalled(audits[k]) /\ audits[k].gpc /= "none")
         => <>(k \in DOMAIN audits /\ audits[k].gpc = "exited"))

\* --------------------------------------------------------- two client instances
\* A process with two client instances, each used by a caller of its own:
\* audits of the two clients run concurrently.
\* The options the two clients were constructed with.
TwoOptions ==
  [Application |-> "app", Server |-> ServerBase, User |-> "user",
   Token |-> "token", MaxRetries |-> 0, PollInterval |-> 0]

\* Both clients have been constructed and no audit has begun.
InitTwo ==
  /\ servers = [c \in Clients |-> New(TRUE, TwoOptions).server]
  /\ audits = << >>
  /\ statusURLResp = EmptyStatus
  /\ panicked = FALSE
  /\ construction = NoConstruction

NextTwo ==
  \/ \E c \in Clients, packages \in BOOLEAN, resp \in ResolveResponses :
       BeginAudit(c, packages, resp)
  \/ \E k \in 1..MaxAudits, failed \in BOOLEAN : OssIndex(k, failed)
  \/ \E k \in 1..MaxAudits, resp \in SubmitResponses : Submit(k, resp)
  \/ \E k \in 1..MaxAudits, resp \in PollResponses : Poll(k, resp)
  \/ \E k \in 1..MaxAudits : Assign(k)
  \/ \E k \in 1..MaxAudits : Populate(k)
  \/ \E k \in 1..MaxAudits : Deliver(k)
  \/ \E k \in 1..MaxAudits : Inc(k)
  \/ \E k \in 1..MaxAudits : IncWrite(k)
  \/ \E k \in 1..MaxAudits : Return(k)

SpecTwo == InitTwo /\ [][NextTwo]_vars

\* What the server answered in s: its fields but the absolute report URL,
\* which the client derives.
Answered(s) == [s EXCEPT !.AbsoluteReportHTMLURL = Nil]

\* C20: an audit that returns a nil error returns what one of its own status
\* GETs was answered with: never what another audit's status GET was
\* answered with, and never an emptied record.
C20_OwnStatus ==
  \A k \in DOMAIN audits :
    LET a == audits[k] IN
    (a.cpc = "done" /\ a.ret.err = Nil) =>
      \E j \in 1..Len(Gets(a)) :
        /\ Gets(a)[j].out = "json"
        /\ Answered(a.ret.status) = Gets(a)[j].payload

====
